---- MODULE Spec2Model ----
(***************************************************************************)
(* Model of accelerate's big_modeling (src/src/accelerate/big_modeling.py): *)
(* dispatch_model and the move entry points it wraps, then                 *)
(* load_checkpoint_and_dispatch, the tied-parameter map, the               *)
(* cpu_offload_with_hook pipeline, attach_layerwise_casting_hooks and      *)
(* init_on_device, each under a specification of its own.                  *)
(*                                                                         *)
(* Python values are written as strings: None is "None", the device-map    *)
(* integers 0 and 1 are "0" and "1", the host tier is "cpu", the disk tier *)
(* is "disk" and the torch placeholder device is "meta".  A module or      *)
(* tensor name is the sequence of its dotted components, so that           *)
(* "is a prefix of" is the module-tree ancestor relation.  A Python dict   *)
(* is the sequence of its items in insertion order.                        *)
(***************************************************************************)
EXTENDS Naturals, Sequences, FiniteSets, TLC

\* ------------------------------------------------------------------ bounds
\* Largest number of items of a device map handed to dispatch_model.
MaxMapLen == 2
\* Largest number of module invocations followed on a dispatched model.
MaxCalls == 3
\* Largest number of models given to cpu_offload_with_hook.
MaxModels == 3
\* Deepest nesting of init_on_device / init_empty_weights contexts.
MaxDepth == 3

\* ------------------------------------------------------- the model (nn.Module)
Root == <<>>
ModulePaths == {Root, <<"a">>, <<"b">>}
LeafModules == {<<"a">>, <<"b">>}
Parameters == {<<"a", "weight">>, <<"a", "bias">>, <<"b", "weight">>}
Buffers == {<<"b", "buf">>}
Tensors == Parameters \cup Buffers

Accelerators == {"0", "1"}
Tiers == {"cpu", "disk"} \cup Accelerators
MainDeviceArgs == {"None", "cpu", "mps"} \cup Accelerators
Platforms == {"npu", "mlu", "sdaa", "musa", "xpu"}

\* name == prefix or name.startswith(prefix + "."); the root "" covers all.
IsPrefix(p, q) == Len(p) <= Len(q) /\ SubSeq(q, 1, Len(p)) = p

TensorsUnder(names) == {t \in Tensors : \E n \in names : IsPrefix(n, t)}

\* ------------------------------------------------------------ dict helpers
Keys(dm) == {dm[i].name : i \in DOMAIN dm}
Values(dm) == {dm[i].device : i \in DOMAIN dm}
ValueSeq(dm) == [i \in DOMAIN dm |-> dm[i].device]
Lookup(dm, n) == (CHOOSE i \in DOMAIN dm : dm[i].name = n)
ItemSet(dm) == {<<dm[i].name, dm[i].device>> : i \in DOMAIN dm}

\* d[key] = value on a dict: overwrite in place, or append a new item.
DictSet(dm, n, v) ==
    IF n \in Keys(dm)
    THEN [i \in DOMAIN dm |-> IF dm[i].name = n THEN [name |-> n, device |-> v] ELSE dm[i]]
    ELSE Append(dm, [name |-> n, device |-> v])

\* [x for x in seq if Keep(x)]
RECURSIVE Filter(_, _)
Filter(seq, keep) ==
    IF seq = <<>> THEN <<>>
    ELSE IF Head(seq) \in keep
         THEN <<Head(seq)>> \o Filter(Tail(seq), keep)
         ELSE Filter(Tail(seq), keep)

\* [name for name, device in device_map.items() if device == tier]
RECURSIVE NamesWithTier(_, _)
NamesWithTier(dm, tier) ==
    IF dm = <<>> THEN <<>>
    ELSE IF Head(dm).device = tier
         THEN <<Head(dm).name>> \o NamesWithTier(Tail(dm), tier)
         ELSE NamesWithTier(Tail(dm), tier)

SeqSet(s) == {s[i] : i \in DOMAIN s}

\* The device maps a caller can pass: items in insertion order, keys distinct.
DeviceMaps ==
    UNION {{dm \in [1..n -> [name : ModulePaths, device : Tiers]] :
                \A i, j \in 1..n : i # j => dm[i].name # dm[j].name} :
           n \in 1..MaxMapLen}


\* --------------------------------------------------------- caller's inputs
StateDictArgs == {"None", "given"}
OffloadBuffersArgs == {FALSE}
OffloadDirArgs == {"None", "dir"}
OffloadIndexArgs == {"None", "index"}

\* Attributes a quantized model carries (read with getattr at lines 358-361).
\* "unset" is an attribute the model does not have.
QuantChoices ==
    {[quantization_method |-> "unset", is_loaded_in_8bit |-> FALSE, is_loaded_in_4bit |-> FALSE],
     [quantization_method |-> "bitsandbytes", is_loaded_in_8bit |-> TRUE, is_loaded_in_4bit |-> FALSE],
     [quantization_method |-> "bitsandbytes", is_loaded_in_8bit |-> FALSE, is_loaded_in_4bit |-> TRUE],
     [quantization_method |-> "gptq", is_loaded_in_8bit |-> TRUE, is_loaded_in_4bit |-> FALSE]}

\* Where the tensors of a freshly built or loaded model live before dispatch:
\* all concrete, all on the placeholder, some parameters on the placeholder,
\* only the buffer on the placeholder.
InitialPlacements ==
    {[t \in Tensors |-> "cpu"],
     [t \in Tensors |-> "meta"],
     [t \in Tensors |-> IF t = <<"a", "bias">> THEN "meta" ELSE "cpu"],
     [t \in Tensors |-> IF t \in Buffers THEN "meta" ELSE "cpu"]}

\* What the accelerator-availability probes (is_npu_available, ...) can answer.
AvailChoices == {{}, {"musa", "xpu"}}

\* ------------------------------------------------------ external collaborators
\* utils.check_device_map: every leaf module resolves to a tier through an
\* explicit entry, its nearest ancestor's entry, or the root entry.
check_device_map(dm) ==
    \A m \in LeafModules : \E k \in Keys(dm) : IsPrefix(k, m)

\* utils.extract_submodules_state_dict(model.state_dict(), names)
extract_submodules_state_dict(names) == TensorsUnder(SeqSet(names))

\* utils.find_tied_parameters(model): the groups of names sharing one storage.
find_tied_parameters == <<{<<"a", "weight">>, <<"b", "weight">>}>>

\* recursive_getattr(model, param_name).data_ptr(): tied names share the pointer.
data_ptr(t) == IF t \in {<<"a", "weight">>, <<"b", "weight">>} THEN <<"a", "weight">> ELSE t

NoHooks ==
    [attached |-> FALSE, execution_device |-> <<>>, offload |-> <<>>,
     weights_map |-> [built |-> FALSE], tied_params_map |-> <<>>, retied |-> FALSE]

\* The key of `offload` that decides a tensor: hooks are attached top-down, so
\* the deepest key covering the tensor is the one whose hook places it last.
CoveringKey(ks, t) ==
    CHOOSE k \in ks : IsPrefix(k, t) /\ \A k2 \in ks : IsPrefix(k2, t) => Len(k2) <= Len(k)

\* hooks.attach_align_device_hook_on_blocks: a module whose offload flag is set
\* has its parameters put on the placeholder (buffers too when offload_buffers),
\* any other mapped module has its tensors placed on its execution device.
attach_align_device_hook_on_blocks(placement, execution_device, offload, offload_buffers) ==
    [t \in Tensors |->
        IF \E k \in DOMAIN offload : IsPrefix(k, t)
        THEN LET k == CoveringKey(DOMAIN offload, t)
                 dev == execution_device[Lookup(execution_device, k)].device
             IN  IF offload[k] /\ (t \in Parameters \/ offload_buffers) THEN "meta" ELSE dev
        ELSE placement[t]]

\* torch.nn.Module.to(device) / .cuda(device): every parameter and buffer goes to
\* the device; a tensor on the placeholder has no data to copy and torch raises.
ModuleTo(placement, device) ==
    IF device = "None" THEN [raised |-> FALSE, placement |-> placement]
    ELSE IF \E t \in Tensors : placement[t] = "meta"
         THEN [raised |-> TRUE, placement |-> placement]
         ELSE [raised |-> FALSE, placement |-> [t \in Tensors |-> device]]

\* utils.modeling.set_module_tensor_to_device(model, name, device)
set_module_tensor_to_device(placement, name, device) ==
    [placement EXCEPT ![name] = device]


\* ------------------------------------------------------------ dispatch_model
\* Lines 358-363: quantized bitsandbytes models force the hook path.
force_hooks_of(quant, force_hooks, bnb_available) ==
    LET method == IF quant.quantization_method = "unset" THEN "bitsandbytes"
                  ELSE quant.quantization_method
    IN  IF method = "bitsandbytes"
           /\ (quant.is_loaded_in_8bit \/ (quant.is_loaded_in_4bit /\ ~bnb_available))
        THEN TRUE
        ELSE force_hooks

\* takes_hook_path with the comparison off by one: any non-empty map qualifies.
takes_hook_path_any_map(device_map, force_hooks) ==
    Cardinality(Values(device_map)) >= 1 \/ force_hooks

\* Line 369: the hook path is taken with two distinct tiers or forced hooks.
takes_hook_path(device_map, force_hooks) ==
    Cardinality(Values(device_map)) > 1 \/ force_hooks

\* Lines 370-374.  [...][0] on an empty list raises IndexError.
main_device_of(device_map, main_device) ==
    IF main_device # "None" THEN main_device
    ELSE IF Values(device_map) = {"cpu"} \/ Values(device_map) = {"cpu", "disk"} THEN "cpu"
    ELSE LET accs == Filter(ValueSeq(device_map), Tiers \ {"cpu", "disk"})
         IN  IF accs = <<>> THEN "IndexError" ELSE accs[1]

\* Lines 376-379: the state dict kept on CPU ("None" or the set of its keys).
state_dict_of(device_map, main_device, state_dict) ==
    LET cpu_modules == NamesWithTier(device_map, "cpu")
    IN  IF main_device # "cpu" /\ state_dict = "None" /\ Len(cpu_modules) > 0
        THEN [given |-> TRUE, keys |-> extract_submodules_state_dict(cpu_modules)]
        ELSE [given |-> state_dict # "None",
              keys |-> IF state_dict = "None" THEN {} ELSE Tensors]

\* Line 381.
disk_modules_of(device_map) == NamesWithTier(device_map, "disk")

\* Lines 395-398: the execution-device table, a dict in device_map order with
\* the root entry set last.
execution_device_of(device_map, main_device) ==
    DictSet([i \in DOMAIN device_map |->
                [name |-> device_map[i].name,
                 device |-> IF device_map[i].device \in {"cpu", "disk"}
                            THEN main_device ELSE device_map[i].device]],
            Root, main_device)

\* offload_of with "cpu" counted as offloaded whatever the main device is.
offload_of_cpu_always(device_map, main_device) ==
    [n \in Keys(device_map) |->
        device_map[Lookup(device_map, n)].device \in {"cpu", "disk"}]

\* Lines 399-400: the offload-flag table.
offload_of(device_map, main_device) ==
    LET offloaded_devices == IF main_device = "cpu" \/ main_device = "mps"
                             THEN {"disk"} ELSE {"cpu", "disk"}
    IN  [n \in Keys(device_map) |->
            device_map[Lookup(device_map, n)].device \in offloaded_devices]

\* Lines 401-408.
weights_map_of(state_dict, disk_modules, offload_dir, offload_index, main_device) ==
    LET save_folder == IF Len(disk_modules) > 0 THEN offload_dir ELSE "None"
    IN  IF state_dict.given \/ save_folder # "None" \/ offload_index # "None"
        THEN [built |-> TRUE, state_dict |-> state_dict, save_folder |-> save_folder,
              index |-> offload_index,
              device |-> IF offload_index # "None" THEN main_device ELSE "None"]
        ELSE [built |-> FALSE]

\* Lines 413-421: one empty per-device dict per tied storage pointer.
tied_params_map_of(tied_params) ==
    [ptr \in {data_ptr(n) : n \in UNION SeqSet(tied_params)} |-> {}]

\* Lines 468-480: the accelerator move entry point that gets wrapped.
accelerator_method(available) ==
    IF "npu" \in available THEN "npu"
    ELSE IF "mlu" \in available THEN "mlu"
    ELSE IF "sdaa" \in available THEN "sdaa"
    ELSE IF "musa" \in available THEN "musa"
    ELSE IF "xpu" \in available THEN "xpu"
    ELSE "cuda"

\* Lines 491-500: the single device of the fast path.  On npu, mlu, sdaa and
\* musa an integer n is rewritten "npu:n", ...: another name of the same device,
\* so the device keeps its identity n here.
fast_path_device(device_map) == ValueSeq(device_map)[1]

\* fast_path without the rejection of "disk": the model is moved like to any device.
fast_path_no_disk_error(st, device_map) ==
    LET device == fast_path_device(device_map)
        moved == ModuleTo(st.placement, device)
    IN  IF moved.raised THEN [st EXCEPT !.status = "NotImplementedError"]
        ELSE [st EXCEPT !.placement = moved.placement]

\* Lines 501-523: the fast path.  `st` is the model and its surroundings.
fast_path(st, device_map) ==
    LET device == fast_path_device(device_map)
        has_meta_tensors == \E p \in Parameters : st.placement[p] = "meta"
    IN  IF device = "disk" THEN [st EXCEPT !.status = "ValueError: use disk_offload"]
        ELSE IF has_meta_tensors
        THEN [st EXCEPT !.placement =
                 [t \in Tensors |-> IF st.placement[t] = "meta"
                                    THEN set_module_tensor_to_device(st.placement, t, device)[t]
                                    ELSE st.placement[t]]]
        ELSE LET moved == ModuleTo(st.placement, device)
             IN  IF moved.raised THEN [st EXCEPT !.status = "NotImplementedError"]
                 ELSE [st EXCEPT !.placement = moved.placement]

\* Lines 370-489: the hook path.  retie_parameters (line 447) is the `retied`
\* field; the driver warning of lines 482-489 only logs and is left out.
hook_path(st, a, force_hooks, env) ==
    LET main_device == main_device_of(st.device_map, a.main_device)
        state_dict == state_dict_of(st.device_map, main_device, a.state_dict)
        disk_modules == disk_modules_of(st.device_map)
        persist == /\ Len(disk_modules) > 0
                   /\ a.offload_index = "None"
                   /\ ~env.has_index
        execution_device == execution_device_of(st.device_map, main_device)
        offload == offload_of(st.device_map, main_device)
        weights_map == weights_map_of(state_dict, disk_modules, a.offload_dir,
                                      a.offload_index, main_device)
        tied_params == find_tied_parameters
    IN  IF main_device = "IndexError" THEN [st EXCEPT !.status = "IndexError"]
        ELSE IF a.offload_dir = "None" /\ a.offload_index = "None" /\ Len(disk_modules) > 0
        THEN [st EXCEPT !.status = "ValueError: need offload_dir",
                        !.main_device = main_device,
                        !.error_modules = disk_modules]
        ELSE [st EXCEPT
                !.main_device = main_device,
                !.disk = IF persist THEN extract_submodules_state_dict(disk_modules) ELSE @,
                !.hooks = [attached |-> TRUE,
                           execution_device |-> execution_device,
                           offload |-> offload,
                           weights_map |-> weights_map,
                           tied_params_map |-> tied_params_map_of(tied_params),
                           retied |-> TRUE],
                !.placement = attach_align_device_hook_on_blocks(
                                  @, execution_device, offload, a.offload_buffers),
                !.warned_offload = Values(st.device_map) \cap {"cpu", "disk"} # {},
                !.wrapped = {"to", accelerator_method(env.available)}]

\* record_device_map recording the derived execution-device table when there is one.
record_execution_table(st) ==
    [st EXCEPT !.status = "returned",
               !.hf_device_map = [set |-> TRUE,
                                  map |-> IF st.hooks.attached
                                          THEN st.hooks.execution_device
                                          ELSE st.device_map]]

\* Lines 524-526: model.hf_device_map = dict(device_map); return model.
record_device_map(st) ==
    [st EXCEPT !.status = "returned",
               !.hf_device_map = [set |-> TRUE, map |-> st.device_map]]

\* Lines 357-526 after the completeness check.
dispatch_body(st, a, env) ==
    LET force_hooks == force_hooks_of(st.quant, a.force_hooks, env.bnb_available)
        st1 == [st EXCEPT !.force_hooks = force_hooks]
        r == IF takes_hook_path(st.device_map, force_hooks)
             THEN hook_path(st1, a, force_hooks, env)
             ELSE fast_path(st1, st.device_map)
    IN  IF r.status # "running" THEN r ELSE record_device_map(r)

\* dispatch_model with the completeness check run after the body instead of first.
dispatch_model_check_last(st, a, env) ==
    LET r == dispatch_body(st, a, env)
    IN  IF ~check_device_map(st.device_map)
        THEN [r EXCEPT !.status = "ValueError: incomplete device_map"]
        ELSE r

\* Lines 354-526.
dispatch_model(st, a, env) ==
    IF ~check_device_map(st.device_map)
    THEN [st EXCEPT !.status = "ValueError: incomplete device_map"]
    ELSE dispatch_body(st, a, env)


\* ----------------------------------------------- the wrapped move entry points
\* What a caller can pass as the target of model.to (no device at all is
\* "None", as in model.to(torch.float16)) and of model.cuda and its like.
ToTargets == {"None", "cpu"} \cup Accelerators
AcceleratorTargets == {"None"} \cup Accelerators

\* wrapper raising only when every parameter is on the placeholder (all for any).
wrapper_all_meta(placement, fn, to_device) ==
    LET warned == IF fn = "to" THEN to_device # "None" ELSE TRUE
        target == IF fn # "to" /\ to_device = "None" THEN "0" ELSE to_device
    IN  IF \A p \in Parameters : placement[p] = "meta"
        THEN [placement |-> placement, warned |-> warned, fn_ran |-> FALSE,
              raised |-> "RuntimeError"]
        ELSE LET moved == ModuleTo(placement, target)
             IN  [placement |-> moved.placement, warned |-> warned, fn_ran |-> TRUE,
                  raised |-> IF moved.raised THEN "NotImplementedError" ELSE "None"]

\* wrapper calling fn first and checking the parameters of the moved model.
wrapper_check_after(placement, fn, to_device) ==
    LET warned == IF fn = "to" THEN to_device # "None" ELSE TRUE
        target == IF fn # "to" /\ to_device = "None" THEN "0" ELSE to_device
        moved == ModuleTo(placement, target)
    IN  IF moved.raised
        THEN [placement |-> placement, warned |-> warned, fn_ran |-> TRUE,
              raised |-> "NotImplementedError"]
        ELSE IF \E p \in Parameters : moved.placement[p] = "meta"
        THEN [placement |-> moved.placement, warned |-> warned, fn_ran |-> TRUE,
              raised |-> "RuntimeError"]
        ELSE [placement |-> moved.placement, warned |-> warned, fn_ran |-> TRUE,
              raised |-> "None"]

\* Lines 450-465: add_warning(fn, model).wrapper(*args, **kwargs).
wrapper(placement, fn, to_device) ==
    LET warned == IF fn = "to" THEN to_device # "None" ELSE TRUE
        target == IF fn # "to" /\ to_device = "None" THEN "0" ELSE to_device
    IN  IF \E p \in Parameters : placement[p] = "meta"
        THEN [placement |-> placement, warned |-> warned, fn_ran |-> FALSE,
              raised |-> "RuntimeError"]
        ELSE LET moved == ModuleTo(placement, target)
             IN  [placement |-> moved.placement, warned |-> warned, fn_ran |-> TRUE,
                  raised |-> IF moved.raised THEN "NotImplementedError" ELSE "None"]

\* ------------------------------------------------------------------- state
VARIABLES
    placement,       \* device of every parameter and buffer of the model
    quant,           \* the model's quantization attributes
    disk,            \* tensors persisted under offload_dir by offload_state_dict
    device_map,      \* the caller's device_map dict object
    hooks,           \* what attach_align_device_hook_on_blocks was given
    wrapped,         \* names of the model's move entry points that are wrapped
    hf_device_map,   \* model.hf_device_map
    status,          \* "idle", "returned" or the exception dispatch_model raised
    args,            \* the arguments of the dispatch_model call
    main_device,     \* dispatch_model's local main_device
    force_hooks,     \* dispatch_model's local force_hooks
    error_modules,   \* the module paths named by the offload_dir error
    warned_offload,  \* the "offloaded to ..." warning of line 442 was logged
    last_call,       \* outcome of the latest call of a wrapped move entry point
    load,            \* the latest load_checkpoint_and_dispatch call
    tied,            \* tied-parameter map of a dispatched model and its use by the hooks
    chain,           \* models chained with cpu_offload_with_hook
    cast,            \* module tree given to attach_layerwise_casting_hooks
    patch            \* process-wide entry points patched by init_on_device

\* The state of the other entry points of the file, untouched by dispatch_model.
others == <<load, tied, chain, cast, patch>>

vars == <<placement, quant, disk, device_map, hooks, wrapped, hf_device_map, status,
          args, main_device, force_hooks, error_modules, warned_offload, last_call,
          load, tied, chain, cast, patch>>

NoArgs ==
    [device_map |-> <<>>, main_device |-> "None", state_dict |-> "None",
     offload_dir |-> "None", offload_index |-> "None", offload_buffers |-> FALSE,
     force_hooks |-> FALSE]

NoCall == [fn |-> "None", to_device |-> "None", warned |-> FALSE, fn_ran |-> FALSE,
           raised |-> "None"]

\* No call of the other entry points has been made.
NoLoad == [status |-> "idle", calls |-> <<>>]
NoTied == [status |-> "idle", calls |-> 0]
NoChain == [status |-> "idle", hook |-> <<>>, device |-> <<>>]
NoCast == [status |-> "idle", attached |-> <<>>]
NoPatch == [status |-> "idle", frames |-> <<>>]

Init ==
    /\ placement \in InitialPlacements
    /\ quant \in QuantChoices
    /\ disk = {}
    /\ device_map = <<>>
    /\ hooks = NoHooks
    /\ wrapped = {}
    /\ hf_device_map = [set |-> FALSE, map |-> <<>>]
    /\ status = "idle"
    /\ args = NoArgs
    /\ main_device = "None"
    /\ force_hooks = FALSE
    /\ error_modules = <<>>
    /\ warned_offload = FALSE
    /\ last_call = NoCall
    /\ load = NoLoad
    /\ tied = NoTied
    /\ chain = NoChain
    /\ cast = NoCast
    /\ patch = NoPatch

\* The probes a call can observe: is_bnb_available is only asked about a 4-bit
\* model (line 361), the offload folder is only looked at when a "disk" module
\* has a folder and no index (lines 388-390).
EnvChoices(q, a) ==
    [bnb_available : IF q.is_loaded_in_4bit THEN BOOLEAN ELSE {TRUE},
     has_index : IF /\ "disk" \in Values(a.device_map)
                    /\ a.offload_index = "None"
                    /\ a.offload_dir # "None"
                 THEN BOOLEAN ELSE {FALSE},
     available : AvailChoices]

\* dispatch_model(model, device_map, main_device, state_dict, offload_dir,
\*                offload_index, offload_buffers, force_hooks=...), with the
\* device map drawn from `maps`.
Dispatch(maps) ==
    /\ status = "idle"
    /\ \E a \in [device_map : maps, main_device : MainDeviceArgs,
                 state_dict : StateDictArgs, offload_dir : OffloadDirArgs,
                 offload_index : OffloadIndexArgs, offload_buffers : OffloadBuffersArgs,
                 force_hooks : BOOLEAN] :
       \E env \in EnvChoices(quant, a) :
        LET st == [placement |-> placement, quant |-> quant, disk |-> disk,
                   device_map |-> a.device_map, hooks |-> hooks, wrapped |-> wrapped,
                   hf_device_map |-> hf_device_map, status |-> "running",
                   main_device |-> "None", force_hooks |-> a.force_hooks,
                   error_modules |-> <<>>, warned_offload |-> FALSE]
        IN  \E r \in {dispatch_model(st, a, env)} :
            /\ args' = a
            /\ placement' = r.placement
            /\ disk' = r.disk
            /\ device_map' = r.device_map
            /\ hooks' = r.hooks
            /\ wrapped' = r.wrapped
            /\ hf_device_map' = r.hf_device_map
            /\ status' = r.status
            /\ main_device' = r.main_device
            /\ force_hooks' = r.force_hooks
            /\ error_modules' = r.error_modules
            /\ warned_offload' = r.warned_offload
    /\ UNCHANGED <<quant, last_call>>
    /\ UNCHANGED others

DispatchModel == Dispatch(DeviceMaps)

\* Device maps naming each leaf module once, or the root alone.
MoveMaps ==
    {<<[name |-> <<"a">>, device |-> x], [name |-> <<"b">>, device |-> y]>> :
        x \in Tiers, y \in Tiers}
    \cup {<<[name |-> Root, device |-> x]>> : x \in Tiers}

DispatchForMove == Dispatch(MoveMaps)

\* model.to(...) or model.cuda(...) on a model whose entry points are wrapped.
WrappedCall ==
    /\ status = "returned"
    /\ \E fn \in wrapped :
       \E to_device \in IF fn = "to" THEN ToTargets ELSE AcceleratorTargets :
        \E r \in {wrapper(placement, fn, to_device)} :
            /\ placement' = r.placement
            /\ last_call' = [fn |-> fn, to_device |-> to_device, warned |-> r.warned,
                             fn_ran |-> r.fn_ran, raised |-> r.raised]
    /\ UNCHANGED <<quant, disk, device_map, hooks, wrapped, hf_device_map, status, args,
                   main_device, force_hooks, error_modules, warned_offload>>
    /\ UNCHANGED others

Next == DispatchModel

Spec == Init /\ [][Next]_vars

NextMove == DispatchForMove \/ WrappedCall

SpecMove == Init /\ [][NextMove]_vars


\* ------------------------------------------------------------------ claims
HasMeta(pl) == \E p \in Parameters : pl[p] = "meta"

\* A step that is a whole dispatch_model call.
DispatchStep == status = "idle" /\ status' # "idle"

\* A dispatch_model call that left the model and its surroundings untouched.
NothingDone ==
    /\ placement' = placement
    /\ disk' = disk
    /\ hooks' = hooks
    /\ wrapped' = wrapped
    /\ hf_device_map' = hf_device_map

\* C1: a dispatch_model call with an incomplete device map fails with the
\* completeness error and has attached no hook, written nothing to disk, not
\* moved the model, wrapped no move entry point and recorded no device map.
C1_IncompleteMapFailsFirst ==
    [][(DispatchStep /\ ~check_device_map(args'.device_map))
          => (status' = "ValueError: incomplete device_map" /\ NothingDone)]_vars

\* An incomplete map was rejected in a call that forced hooks and named an
\* offload folder for its disk tier.
C1_Witness ==
    /\ status = "ValueError: incomplete device_map"
    /\ Values(args.device_map) = {"disk"}
    /\ args.force_hooks
    /\ args.offload_dir = "dir"

\* C2: a call with a complete device map whose only tier is "disk", hooks not
\* forced, fails with the error pointing at disk_offload, and has attached no
\* hook, not moved the model, wrapped nothing and recorded no device map.
C2_DiskOnlyFastPathRejected ==
    [][(/\ DispatchStep
        /\ check_device_map(args'.device_map)
        /\ Values(args'.device_map) = {"disk"}
        /\ ~force_hooks')
          => (status' = "ValueError: use disk_offload" /\ NothingDone)]_vars

\* A disk-only map was rejected on the fast path of a 4-bit model.
C2_Witness ==
    /\ status = "ValueError: use disk_offload"
    /\ quant.is_loaded_in_4bit
    /\ Len(args.device_map) > 1


\* The call passed the completeness check and took the hook path.
OnHookPath ==
    /\ status \notin {"idle", "ValueError: incomplete device_map"}
    /\ (Cardinality(Values(args.device_map)) > 1 \/ force_hooks)

TierOf(n) == args.device_map[Lookup(args.device_map, n)].device

\* C3: on the hook path, a map with a "disk" entry and neither offload_dir nor
\* offload_index makes the call fail with the error listing exactly the disk
\* module paths, with nothing persisted, no hook attached, nothing wrapped and
\* no device map recorded.
C3_DiskNeedsOffloadDir ==
    (/\ OnHookPath
     /\ "disk" \in Values(args.device_map)
     /\ args.offload_dir = "None"
     /\ args.offload_index = "None")
       => /\ status = "ValueError: need offload_dir"
          /\ SeqSet(error_modules) = {n \in Keys(args.device_map) : TierOf(n) = "disk"}
          /\ disk = {}
          /\ hooks = NoHooks
          /\ wrapped = {}
          /\ ~hf_device_map.set

\* C4: on the hook path a main device is always selected: the caller's when
\* given, else "cpu" when the tiers are {"cpu"} or {"cpu", "disk"}, else the
\* first accelerator value in the map's iteration order.
C4_MainDeviceSelected ==
    OnHookPath
       => /\ status # "IndexError"
          /\ main_device =
                IF args.main_device # "None" THEN args.main_device
                ELSE IF Values(args.device_map) \in {{"cpu"}, {"cpu", "disk"}} THEN "cpu"
                ELSE LET i == CHOOSE i \in DOMAIN args.device_map :
                                 /\ args.device_map[i].device \in Accelerators
                                 /\ \A j \in 1..(i - 1) :
                                        args.device_map[j].device \notin Accelerators
                     IN  args.device_map[i].device

\* C5: in the execution-device table every path of the device map, the root
\* included, runs on the main device when its tier is "cpu" or "disk" and on
\* its own accelerator otherwise; no entry is "disk".
C5_ExecutionDeviceTable ==
    hooks.attached
       => /\ \A n \in Keys(args.device_map) :
                hooks.execution_device[Lookup(hooks.execution_device, n)].device =
                    IF TierOf(n) \in {"cpu", "disk"} THEN main_device ELSE TierOf(n)
          /\ "disk" \notin Values(hooks.execution_device)

\* C6 as claimed: the offload flag of a path is set exactly when its tier is
\* "cpu" or "disk", whatever the main device.
C6_Original ==
    hooks.attached
       => \A n \in Keys(args.device_map) :
              hooks.offload[n] <=> TierOf(n) \in {"cpu", "disk"}

\* C6: the offload flag of a path is set exactly when its tier is "disk", or
\* its tier is "cpu" and the main device is neither "cpu" nor "mps"; it is
\* never set for an accelerator tier.
C6_OffloadFlags ==
    hooks.attached
       => /\ DOMAIN hooks.offload = Keys(args.device_map)
          /\ \A n \in Keys(args.device_map) :
                hooks.offload[n] <=>
                    \/ TierOf(n) = "disk"
                    \/ (TierOf(n) = "cpu" /\ main_device \notin {"cpu", "mps"})

\* A "cpu" path left un-offloaded next to an offloaded "disk" path, main device "cpu".
C6_Witness ==
    /\ hooks.attached
    /\ main_device = "cpu"
    /\ \E n, m \in Keys(args.device_map) :
          /\ TierOf(n) = "cpu" /\ ~hooks.offload[n]
          /\ TierOf(m) = "disk" /\ hooks.offload[m]

\* C7 as claimed: a returned call has attached hooks and wrapped the move entry
\* points exactly when the map has several tiers or hooks are forced, and a
\* single-tier map without the caller's force_hooks takes the fast path.
C7_Original ==
    status = "returned"
       => /\ (hooks.attached /\ wrapped # {})
                <=> (Cardinality(Values(args.device_map)) > 1 \/ force_hooks)
          /\ (Cardinality(Values(args.device_map)) = 1 /\ ~args.force_hooks)
                => (hooks = NoHooks /\ wrapped = {})

\* C7: hooks are attached and move entry points wrapped only on the hook path
\* (several tiers, or hooks forced by the caller or by the quantization
\* override); a returned hook-path call has attached hooks and wrapped "to" and
\* one accelerator entry point; a single-tier map with hooks not forced builds
\* no hook, no tied-parameter map, no weights map and wraps nothing.
C7_HooksIffHookPath ==
    status # "idle"
       => LET hook_path_taken ==
                  Cardinality(Values(args.device_map)) > 1 \/ force_hooks
          IN  /\ (hooks.attached \/ wrapped # {}) => hook_path_taken
              /\ (hook_path_taken /\ status = "returned")
                    => (hooks.attached /\ "to" \in wrapped /\ Cardinality(wrapped) = 2)
              /\ ~hook_path_taken
                    => /\ ~hooks.attached
                       /\ hooks.tied_params_map = <<>>
                       /\ ~hooks.weights_map.built
                       /\ wrapped = {}

\* A single-tier map got hooks because the 8-bit model forced them, not the caller.
C7_Witness ==
    /\ status = "returned"
    /\ Cardinality(Values(args.device_map)) = 1
    /\ ~args.force_hooks
    /\ quant.is_loaded_in_8bit
    /\ hooks.attached
    /\ wrapped # {}

\* C10: a returned call leaves on the model a device map with the keys and
\* values the caller passed, and the caller's own dict as it was passed.
C10_DeviceMapRecorded ==
    status = "returned"
       => /\ hf_device_map.set
          /\ ItemSet(hf_device_map.map) = ItemSet(args.device_map)
          /\ Len(hf_device_map.map) = Len(args.device_map)
          /\ device_map = args.device_map

\* A hook-path call on a map without a root key: the root entry of the
\* execution-device table is not in the recorded map.
C10_Witness ==
    /\ status = "returned"
    /\ hooks.attached
    /\ Root \notin Keys(args.device_map)
    /\ Root \in Keys(hooks.execution_device)
    /\ Root \notin Keys(hf_device_map.map)


\* A step that is a whole call of a wrapped move entry point.
CallStep == status = "returned" /\ status' = "returned"

\* C8 as claimed: a wrapped call on a model with a parameter on the placeholder
\* raises; on a model with every parameter placed it runs the move, returns and
\* has logged the warning, whatever the arguments.
C8_Original ==
    [][CallStep
          => /\ HasMeta(placement) => last_call'.raised = "RuntimeError"
             /\ ~HasMeta(placement)
                   => /\ last_call'.raised = "None"
                      /\ last_call'.fn_ran
                      /\ last_call'.warned]_vars

\* C8: a wrapped call on a model with a parameter on the placeholder raises;
\* on a model with every parameter placed it runs the move and returns.  The
\* warning is logged by every call of the accelerator entry point and by every
\* call of "to" that names a device, and by no call of "to" that names none.
C8_GuardAndWarning ==
    [][CallStep
          => /\ HasMeta(placement) => last_call'.raised = "RuntimeError"
             /\ ~HasMeta(placement)
                   => (last_call'.raised = "None" /\ last_call'.fn_ran)
             /\ last_call'.warned
                   <=> (last_call'.fn # "to" \/ last_call'.to_device # "None")]_vars

\* model.to(dtype) on a fully placed hooked model returned without a warning.
C8_Witness ==
    /\ hooks.attached
    /\ last_call.fn = "to"
    /\ last_call.to_device = "None"
    /\ last_call.raised = "None"
    /\ last_call.fn_ran
    /\ ~last_call.warned

\* C9 as claimed: the wrapped move always runs first and the call fails exactly
\* when a parameter is on the placeholder after it.
C9_Original ==
    [][CallStep
          => /\ last_call'.fn_ran
             /\ last_call'.raised = "RuntimeError" <=> HasMeta(placement')]_vars

\* C9: the placeholder check reads the model as it is before the wrapped move:
\* the call fails with the guard's error exactly when a parameter is on the
\* placeholder at the call, and then the wrapped move has not run and no tensor
\* has moved; otherwise the wrapped move runs.
C9_CheckBeforeMove ==
    [][CallStep
          => /\ last_call'.raised = "RuntimeError" <=> HasMeta(placement)
             /\ last_call'.fn_ran <=> ~HasMeta(placement)
             /\ last_call'.raised = "RuntimeError" => placement' = placement]_vars

\* A wrapped call was refused by the guard: the wrapped move did not run.
C9_Witness ==
    /\ hooks.attached
    /\ last_call.raised = "RuntimeError"
    /\ ~last_call.fn_ran
    /\ HasMeta(placement)


\* ============================================== load_checkpoint_and_dispatch
\* The symbolic device maps of line 623.
SymbolicTokens == {"auto", "balanced", "balanced_low_0", "sequential"}

\* Device maps a caller of load_checkpoint_and_dispatch passes explicitly: the
\* complete maps of MoveMaps and maps that leave module b out.
LoadMaps == MoveMaps \cup {<<[name |-> <<"a">>, device |-> x]>> : x \in Tiers}

\* The device_map argument: None, a string or a dict.
NoneMap == [kind |-> "None", token |-> "None", map |-> <<>>]
DeviceMapArgs ==
    {NoneMap}
    \cup {[kind |-> "str", token |-> t, map |-> <<>>] : t \in SymbolicTokens \cup {"even"}}
    \cup {[kind |-> "dict", token |-> "None", map |-> m] : m \in LoadMaps}

\* A memory budget: the caller's max_memory ("None" or a dict the caller
\* wrote), or what get_balanced_memory made of it.
CallerBudget(c) == [by |-> "caller", low_zero |-> FALSE, caller |-> c]
MaxMemoryArgs == {CallerBudget("None"), CallerBudget("given")}

\* utils.get_balanced_memory(model, max_memory=..., low_zero=...)
get_balanced_memory(max_memory, low_zero) ==
    [by |-> "get_balanced_memory", low_zero |-> low_zero, caller |-> max_memory.caller]

\* One call of a collaborator, with the arguments it received.
Call(fn) ==
    [fn |-> fn, max_memory |-> CallerBudget("None"), low_zero |-> FALSE,
     device_map |-> NoneMap, offload_state_dict |-> "None", offload_dir |-> "None",
     force_hooks |-> FALSE]

\* rejects_device_map accepting every string.
rejects_no_string(dm) == FALSE

\* Line 623: a string that is not one of the four symbolic maps is rejected.
rejects_device_map(dm) == dm.kind = "str" /\ dm.token \notin SymbolicTokens

\* infer_step asking get_balanced_memory for no token at all.
infer_step_caller_budget(dm, max_memory, inferred) ==
    IF dm.kind # "str" THEN [calls |-> <<>>, device_map |-> dm]
    ELSE [calls |-> <<[Call("infer_auto_device_map") EXCEPT !.max_memory = max_memory]>>,
          device_map |-> [kind |-> "dict", token |-> "None", map |-> inferred]]

\* Lines 627-642: a string device map is replaced by the map
\* infer_auto_device_map returns (`inferred`); every string but "sequential"
\* has max_memory replaced by get_balanced_memory's answer first.
infer_step(dm, max_memory, inferred) ==
    IF dm.kind # "str" THEN [calls |-> <<>>, device_map |-> dm]
    ELSE LET low_zero == dm.token = "balanced_low_0"
             balanced == dm.token # "sequential"
             budget == IF balanced THEN get_balanced_memory(max_memory, low_zero)
                       ELSE max_memory
         IN  [calls |->
                 (IF balanced
                  THEN <<[Call("get_balanced_memory") EXCEPT !.max_memory = max_memory,
                                                             !.low_zero = low_zero]>>
                  ELSE <<>>)
                 \o <<[Call("infer_auto_device_map") EXCEPT !.max_memory = budget]>>,
              device_map |-> [kind |-> "dict", token |-> "None", map |-> inferred]]

\* Lines 643-644.
offload_state_dict_of(offload_state_dict, dm) ==
    IF offload_state_dict = "None" /\ dm.kind # "None" /\ "disk" \in Values(dm.map)
    THEN "True"
    ELSE offload_state_dict

\* utils.load_checkpoint_in_model: each tensor the map covers is loaded on its
\* tier; a "disk" tensor stays on the placeholder and is written to the offload
\* folder.  Without a map the state dict is copied into the tensors in place.
load_checkpoint_in_model(st, dm, offload_folder) ==
    IF dm.kind = "None" THEN st
    ELSE LET ks == Keys(dm.map)
             tier(t) == dm.map[Lookup(dm.map, CoveringKey(ks, t))].device
             covered == {t \in Tensors : \E k \in ks : IsPrefix(k, t)}
         IN  [st EXCEPT
                !.placement = [t \in Tensors |->
                                  IF t \notin covered THEN @[t]
                                  ELSE IF tier(t) = "disk" THEN "meta" ELSE tier(t)],
                !.disk = IF offload_folder = "None" THEN @
                         ELSE @ \cup {t \in covered : tier(t) = "disk"}]

\* The dispatch_model arguments of lines 659-667.
dispatch_args(dm, a) ==
    [device_map |-> dm.map, main_device |-> "None", state_dict |-> "None",
     offload_dir |-> a.offload_folder, offload_index |-> "None",
     offload_buffers |-> a.offload_buffers, force_hooks |-> a.force_hooks]

\* The rest of the call after the loader: dispatch when there is a device map.
dispatch_step(st, dm, a, env) ==
    IF dm.kind = "None"
    THEN [model |-> st, calls |-> <<>>, status |-> "returned"]
    ELSE LET d == dispatch_args(dm, a)
             r == dispatch_model([st EXCEPT !.status = "running", !.device_map = dm.map,
                                            !.force_hooks = a.force_hooks], d, env)
         IN  [model |-> r,
              calls |-> <<[Call("dispatch_model") EXCEPT !.device_map = dm,
                                                         !.offload_dir = a.offload_folder,
                                                         !.force_hooks = a.force_hooks]>>,
              status |-> IF r.status = "returned" THEN "returned" ELSE "dispatch raised"]

\* load_checkpoint_and_dispatch dispatching first and loading afterwards.
load_checkpoint_and_dispatch_late_load(st, a, env) ==
    IF rejects_device_map(a.device_map)
    THEN [model |-> st, calls |-> <<>>, status |-> "ValueError: device_map string"]
    ELSE LET inf == infer_step(a.device_map, a.max_memory, env.inferred)
             dm == inf.device_map
             osd == offload_state_dict_of(a.offload_state_dict, dm)
             d == dispatch_step(st, dm, a, env)
             loader == [Call("load_checkpoint_in_model") EXCEPT
                           !.device_map = dm, !.offload_state_dict = osd,
                           !.offload_dir = a.offload_folder]
         IN  [model |-> d.model, calls |-> inf.calls \o d.calls \o <<loader>>,
              status |-> d.status]

\* Lines 623-667.  `env` holds what the collaborators answer: the map
\* infer_auto_device_map returns, whether load_checkpoint_in_model returns or
\* raises (a key missing in strict mode), and dispatch_model's probes.
load_checkpoint_and_dispatch(st, a, env) ==
    IF rejects_device_map(a.device_map)
    THEN [model |-> st, calls |-> <<>>, status |-> "ValueError: device_map string"]
    ELSE LET inf == infer_step(a.device_map, a.max_memory, env.inferred)
             dm == inf.device_map
             osd == offload_state_dict_of(a.offload_state_dict, dm)
             loader == [Call("load_checkpoint_in_model") EXCEPT
                           !.device_map = dm, !.offload_state_dict = osd,
                           !.offload_dir = a.offload_folder]
         IN  IF ~env.loader_returns
             THEN [model |-> st, calls |-> inf.calls \o <<loader>>,
                   status |-> "loader raised"]
             ELSE LET d == dispatch_step(
                               load_checkpoint_in_model(st, dm, a.offload_folder),
                               dm, a, env)
                  IN  [model |-> d.model, calls |-> inf.calls \o <<loader>> \o d.calls,
                       status |-> d.status]

OffloadStateDictArgs == {"None", "True", "False"}

\* What the collaborators of one call can answer.
LoadEnvChoices(q, a) ==
    [bnb_available : IF q.is_loaded_in_4bit /\ a.device_map.kind # "None"
                     THEN BOOLEAN ELSE {TRUE},
     has_index : IF a.device_map.kind # "None" /\ a.offload_folder # "None"
                 THEN BOOLEAN ELSE {FALSE},
     available : AvailChoices,
     inferred : IF a.device_map.kind = "str" /\ ~rejects_device_map(a.device_map)
                THEN MoveMaps ELSE {<<>>},
     loader_returns : IF rejects_device_map(a.device_map) THEN {TRUE} ELSE BOOLEAN]

\* A model nobody has dispatched yet.
FreshModel ==
    /\ placement \in InitialPlacements
    /\ quant \in QuantChoices
    /\ disk = {}
    /\ device_map = <<>>
    /\ hooks = NoHooks
    /\ wrapped = {}
    /\ hf_device_map = [set |-> FALSE, map |-> <<>>]
    /\ status = "idle"
    /\ args = NoArgs
    /\ main_device = "None"
    /\ force_hooks = FALSE
    /\ error_modules = <<>>
    /\ warned_offload = FALSE
    /\ last_call = NoCall

NoLoadArgs ==
    [device_map |-> NoneMap, max_memory |-> CallerBudget("None"),
     offload_state_dict |-> "None", offload_folder |-> "None",
     offload_buffers |-> FALSE, force_hooks |-> FALSE]

InitLoad ==
    /\ FreshModel
    /\ load = [status |-> "idle", calls |-> <<>>, args |-> NoLoadArgs]
    /\ tied = NoTied
    /\ chain = NoChain
    /\ cast = NoCast
    /\ patch = NoPatch

\* load_checkpoint_and_dispatch(model, checkpoint, device_map, max_memory,
\*     offload_folder=..., offload_state_dict=..., force_hooks=...)
LoadCheckpointAndDispatch ==
    /\ load.status = "idle"
    /\ \E a \in [device_map : DeviceMapArgs, max_memory : MaxMemoryArgs,
                 offload_state_dict : OffloadStateDictArgs,
                 offload_folder : OffloadDirArgs,
                 offload_buffers : OffloadBuffersArgs, force_hooks : BOOLEAN] :
       \E env \in LoadEnvChoices(quant, a) :
        LET st == [placement |-> placement, quant |-> quant, disk |-> disk,
                   device_map |-> device_map, hooks |-> hooks, wrapped |-> wrapped,
                   hf_device_map |-> hf_device_map, status |-> status,
                   main_device |-> main_device, force_hooks |-> force_hooks,
                   error_modules |-> error_modules, warned_offload |-> warned_offload]
        IN  \E r \in {load_checkpoint_and_dispatch(st, a, env)} :
            /\ load' = [status |-> r.status, calls |-> r.calls, args |-> a]
            /\ placement' = r.model.placement
            /\ disk' = r.model.disk
            /\ device_map' = r.model.device_map
            /\ hooks' = r.model.hooks
            /\ wrapped' = r.model.wrapped
            /\ hf_device_map' = r.model.hf_device_map
            /\ status' = r.model.status
            /\ main_device' = r.model.main_device
            /\ force_hooks' = r.model.force_hooks
            /\ error_modules' = r.model.error_modules
            /\ warned_offload' = r.model.warned_offload
    /\ UNCHANGED <<quant, args, last_call, tied, chain, cast, patch>>

NextLoad == LoadCheckpointAndDispatch

SpecLoad == InitLoad /\ [][NextLoad]_vars


\* ------------------------------------------- claims on load_checkpoint_and_dispatch
\* A step that is one call of load_checkpoint_and_dispatch.
LoadStep == load.status = "idle" /\ load'.status # "idle"

\* The model as dispatch_model and the loader can change it.
model_state == <<placement, quant, disk, device_map, hooks, wrapped, hf_device_map,
                 status, main_device, force_hooks, error_modules, warned_offload>>

\* The functions called during the call, in order.
CalledFns(l) == [i \in DOMAIN l.calls |-> l.calls[i].fn]

\* The positions of the calls of fn.
CallsOf(l, fn) == {i \in DOMAIN l.calls : l.calls[i].fn = fn}

\* C11: a call with a string device map that is none of "auto", "balanced",
\* "balanced_low_0", "sequential" raises ValueError without calling
\* get_balanced_memory, infer_auto_device_map, load_checkpoint_in_model or
\* dispatch_model, and leaves the model as it was.
C11_BadStringFailsFirst ==
    [][(/\ LoadStep
        /\ load'.args.device_map.kind = "str"
        /\ load'.args.device_map.token \notin SymbolicTokens)
       => /\ load'.status = "ValueError: device_map string"
          /\ load'.calls = <<>>
          /\ UNCHANGED model_state]_vars

C11_Witness ==
    /\ load.status = "ValueError: device_map string"
    /\ load.args.device_map.token = "even"
    /\ \E t \in Tensors : placement[t] = "meta"

\* The estimator is called first and the partitioner right after it, with the
\* budget the estimator returned.
EstimatorThenPartitioner(l) ==
    /\ Len(l.calls) >= 2
    /\ l.calls[1].fn = "get_balanced_memory"
    /\ l.calls[1].max_memory = l.args.max_memory
    /\ l.calls[2].fn = "infer_auto_device_map"
    /\ l.calls[2].max_memory = get_balanced_memory(l.calls[1].max_memory, l.calls[1].low_zero)
    /\ CallsOf(l, "get_balanced_memory") = {1}
    /\ CallsOf(l, "infer_auto_device_map") = {2}

\* C12 as stated: every accepted string has the estimator called first and the
\* partitioner called with the estimator's budget; a dict calls neither.
C12_Original ==
    /\ (load.args.device_map.kind = "str" /\ load.args.device_map.token \in SymbolicTokens
        /\ load.status # "idle")
       => EstimatorThenPartitioner(load)
    /\ load.args.device_map.kind = "dict"
       => CallsOf(load, "get_balanced_memory") \cup CallsOf(load, "infer_auto_device_map") = {}

\* C12: for "auto", "balanced" and "balanced_low_0" get_balanced_memory is
\* called first (low_zero set for "balanced_low_0" only) and
\* infer_auto_device_map right after it with the budget it returned; for
\* "sequential" get_balanced_memory is not called and infer_auto_device_map is
\* the first call, with the caller's max_memory; for a dict neither is called.
C12_EstimatorUnlessSequential ==
    /\ (load.args.device_map.kind = "str" /\ load.status # "idle"
        /\ load.args.device_map.token \in SymbolicTokens \ {"sequential"})
       => /\ EstimatorThenPartitioner(load)
          /\ load.calls[1].low_zero = (load.args.device_map.token = "balanced_low_0")
    /\ (load.args.device_map.kind = "str" /\ load.status # "idle"
        /\ load.args.device_map.token = "sequential")
       => /\ CallsOf(load, "get_balanced_memory") = {}
          /\ CallsOf(load, "infer_auto_device_map") = {1}
          /\ load.calls[1].max_memory = load.args.max_memory
    /\ load.args.device_map.kind = "dict"
       => CallsOf(load, "get_balanced_memory") \cup CallsOf(load, "infer_auto_device_map") = {}

C12_Witness ==
    /\ load.args.device_map.token = "sequential"
    /\ load.args.max_memory.caller = "given"
    /\ load.status = "returned"
    /\ CalledFns(load) = <<"infer_auto_device_map", "load_checkpoint_in_model", "dispatch_model">>

\* The device map the loader received, explicit or inferred.
LoadedMap(l) == l.calls[CHOOSE i \in CallsOf(l, "load_checkpoint_in_model") : TRUE].device_map

\* The call got past the check of line 623.
ValidCall(l) == l.status \notin {"idle", "ValueError: device_map string"}

\* The loader is called once, and before any dispatch.
LoaderOnceAndFirst(l) ==
    /\ Cardinality(CallsOf(l, "load_checkpoint_in_model")) = 1
    /\ \A i \in CallsOf(l, "load_checkpoint_in_model"), j \in CallsOf(l, "dispatch_model") :
          i < j

\* The model carries no hooks, no wrapped entry point and no recorded map.
Undispatched ==
    /\ ~hooks.attached
    /\ wrapped = {}
    /\ ~hf_device_map.set

\* C13 as stated: dispatch_model is called exactly when there is a device map.
C13_Original ==
    ValidCall(load)
    => /\ LoaderOnceAndFirst(load)
       /\ (CallsOf(load, "dispatch_model") # {}) <=> (LoadedMap(load).kind # "None")
       /\ load.args.device_map.kind = "None" => load.status = "returned" /\ Undispatched

\* C13: with a valid device-map argument load_checkpoint_in_model is called
\* exactly once and before any dispatch; when it returns, dispatch_model is
\* called (once, with the loader's map) if and only if there is a device map,
\* and without one the model is returned with no hooks, no wrapped entry point
\* and no recorded device map; when it raises, dispatch_model is not called.
C13_LoadThenDispatch ==
    ValidCall(load)
    => /\ LoaderOnceAndFirst(load)
       /\ load.status # "loader raised"
          => /\ (CallsOf(load, "dispatch_model") # {}) <=> (LoadedMap(load).kind # "None")
             /\ Cardinality(CallsOf(load, "dispatch_model")) <= 1
             /\ \A j \in CallsOf(load, "dispatch_model") :
                   load.calls[j].device_map = LoadedMap(load)
             /\ load.args.device_map.kind = "None"
                => load.status = "returned" /\ Undispatched
       /\ load.status = "loader raised"
          => CallsOf(load, "dispatch_model") = {} /\ Undispatched

C13_Witness ==
    /\ load.status = "returned"
    /\ load.args.device_map.kind = "None"
    /\ CalledFns(load) = <<"load_checkpoint_in_model">>
    /\ \E t \in Tensors : placement[t] = "meta"


\* ==================================================== the tied-parameter map
\* The names find_tied_parameters reports, in named_parameters order, and
\* the pointers that key tied_params_map.
TiedNames == UNION SeqSet(find_tied_parameters)
TiedOrder == <<<<"a", "weight">>, <<"b", "weight">>>>
TiedPtrs == {data_ptr(n) : n \in TiedNames}

\* The devices a module can execute on.
ExecDevices == {"cpu", "mps"} \cup Accelerators

\* No tensor object: an empty slot, or a name whose tensor has no storage.
NoObj == <<>>

\* utils.set_module_tensor_to_device, end: the new tensor is stored in the
\* slot of its pointer for the device unless the slot is already filled.
populate(slots, ptr, device, o) ==
    IF slots[ptr][device] # NoObj THEN slots ELSE [slots EXCEPT ![ptr][device] = o]

\* materialize allocating whatever the slot holds.
materialize_no_reuse(td, name, device) ==
    LET ptr == data_ptr(name)
    IN  [td EXCEPT !.allocs[ptr][device] = @ + 1,
                   !.slots = populate(@, ptr, device, name),
                   !.obj[name] = name]

\* The movement hook materializing tied name `name` on `device`: a filled slot
\* is reused, otherwise a tensor is allocated (it is identified by the name it
\* was allocated for) and stored in the slot.
materialize(td, name, device) ==
    LET ptr == data_ptr(name)
    IN  IF td.slots[ptr][device] # NoObj
        THEN [td EXCEPT !.obj[name] = td.slots[ptr][device], !.reuses = @ + 1]
        ELSE [td EXCEPT !.allocs[ptr][device] = @ + 1,
                        !.slots = populate(@, ptr, device, name),
                        !.obj[name] = name]

\* materialize for each name of `names`, in order, on the device `dev` gives it.
RECURSIVE materialize_all(_, _, _)
materialize_all(td, names, dev) ==
    IF names = <<>> THEN td
    ELSE materialize_all(materialize(td, Head(names), dev[Head(names)]), Tail(names), dev)

\* The hook deciding tensor t, its offload flag and its execution device.
HookKey(h, t) == CoveringKey(DOMAIN h.offload, t)
Offloaded(h, t) == h.offload[HookKey(h, t)]
ExecutionDevice(h, t) == h.execution_device[Lookup(h.execution_device, HookKey(h, t))].device

\* Lines 413-431: tied_params_map as built by dispatch_model (every slot
\* empty) is handed to the hooks, whose installation places the tensors of the
\* modules that are not offloaded.
install(h) ==
    LET td0 == [status |-> "installed", calls |-> 0, reuses |-> 0, in_call |-> {},
                slots |-> [ptr \in DOMAIN h.tied_params_map |-> [d \in ExecDevices |-> NoObj]],
                allocs |-> [ptr \in DOMAIN h.tied_params_map |-> [d \in ExecDevices |-> 0]],
                obj |-> [n \in TiedNames |-> NoObj]]
        placed == Filter(TiedOrder, {n \in TiedNames : ~Offloaded(h, n)})
    IN  materialize_all(td0, placed, [n \in TiedNames |-> ExecutionDevice(h, n)])

\* The pre-call hook of leaf module m: the parameters of an offloaded module
\* are materialized on its execution device.
pre_forward(td, h, m) ==
    LET mine == Filter(TiedOrder, {n \in TiedNames : IsPrefix(m, n) /\ Offloaded(h, n)})
        td1 == materialize_all(td, mine, [n \in TiedNames |-> ExecutionDevice(h, n)])
    IN  [td1 EXCEPT !.calls = @ + 1, !.in_call = @ \cup {m}]

\* The post-call hook of leaf module m: the parameters of an offloaded module
\* go back to the placeholder; the slots keep what they hold.
post_forward(td, h, m) ==
    [td EXCEPT !.in_call = @ \ {m},
               !.obj = [n \in TiedNames |->
                           IF IsPrefix(m, n) /\ Offloaded(h, n) THEN NoObj ELSE @[n]]]

InitTied ==
    /\ FreshModel
    /\ placement = [t \in Tensors |-> "cpu"]
    /\ quant.quantization_method = "unset"
    /\ load = NoLoad
    /\ tied = NoTied
    /\ chain = NoChain
    /\ cast = NoCast
    /\ patch = NoPatch

\* dispatch_model(model, device_map, main_device, offload_dir="dir",
\* force_hooks=...) on a model kept on the host.
DispatchTied ==
    /\ status = "idle"
    /\ \E a \in [device_map : MoveMaps, main_device : MainDeviceArgs,
                 state_dict : {"None"}, offload_dir : {"dir"},
                 offload_index : {"None"}, offload_buffers : OffloadBuffersArgs,
                 force_hooks : BOOLEAN] :
       \E env \in [bnb_available : {TRUE}, has_index : {FALSE}, available : {{}}] :
        LET st == [placement |-> placement, quant |-> quant, disk |-> disk,
                   device_map |-> a.device_map, hooks |-> hooks, wrapped |-> wrapped,
                   hf_device_map |-> hf_device_map, status |-> "running",
                   main_device |-> "None", force_hooks |-> a.force_hooks,
                   error_modules |-> <<>>, warned_offload |-> FALSE]
        IN  \E r \in {dispatch_model(st, a, env)} :
            /\ args' = a
            /\ placement' = r.placement
            /\ disk' = r.disk
            /\ device_map' = r.device_map
            /\ hooks' = r.hooks
            /\ wrapped' = r.wrapped
            /\ hf_device_map' = r.hf_device_map
            /\ status' = r.status
            /\ main_device' = r.main_device
            /\ force_hooks' = r.force_hooks
            /\ error_modules' = r.error_modules
            /\ warned_offload' = r.warned_offload
            /\ tied' = IF r.status = "returned" /\ r.hooks.attached
                       THEN install(r.hooks) ELSE tied
    /\ UNCHANGED <<quant, last_call, load, chain, cast, patch>>

\* The hooked forward of leaf module m begins.
PreForward ==
    /\ tied.status = "installed"
    /\ tied.calls < MaxCalls
    /\ \E m \in LeafModules \ tied.in_call :
        /\ tied' = pre_forward(tied, hooks, m)
        /\ placement' = [t \in Tensors |->
                            IF IsPrefix(m, t) /\ t \in Parameters /\ Offloaded(hooks, t)
                            THEN ExecutionDevice(hooks, t) ELSE placement[t]]
    /\ UNCHANGED <<quant, disk, device_map, hooks, wrapped, hf_device_map, status, args,
                   main_device, force_hooks, error_modules, warned_offload, last_call,
                   load, chain, cast, patch>>

\* The hooked forward of leaf module m ends.
PostForward ==
    /\ tied.status = "installed"
    /\ \E m \in tied.in_call :
        /\ tied' = post_forward(tied, hooks, m)
        /\ placement' = [t \in Tensors |->
                            IF IsPrefix(m, t) /\ t \in Parameters /\ Offloaded(hooks, t)
                            THEN "meta" ELSE placement[t]]
    /\ UNCHANGED <<quant, disk, device_map, hooks, wrapped, hf_device_map, status, args,
                   main_device, force_hooks, error_modules, warned_offload, last_call,
                   load, chain, cast, patch>>

NextTied == DispatchTied \/ PreForward \/ PostForward

SpecTied == InitTied /\ [][NextTied]_vars

\* C14: on a model dispatched through the hook path, tied_params_map has one
\* slot per tied storage pointer and device, empty after construction; at any
\* point of any sequence of module invocations at most one tensor has been
\* allocated per (pointer, device), exactly when the slot is filled; a tied name
\* that holds a tensor holds the one of the slot of its device; and populating
\* a filled slot again leaves the map as it is.
C14_OneMaterializationPerSlot ==
    tied.status = "installed"
    => /\ DOMAIN tied.slots = DOMAIN hooks.tied_params_map
       /\ DOMAIN tied.slots = TiedPtrs
       /\ \A ptr \in DOMAIN hooks.tied_params_map : hooks.tied_params_map[ptr] = {}
       /\ \A ptr \in TiedPtrs, d \in ExecDevices :
            /\ tied.allocs[ptr][d] <= 1
            /\ (tied.allocs[ptr][d] = 1) <=> (tied.slots[ptr][d] # NoObj)
            /\ tied.slots[ptr][d] # NoObj
               => \A o \in TiedNames : populate(tied.slots, ptr, d, o) = tied.slots
       /\ \A n \in TiedNames :
            tied.obj[n] # NoObj
            => /\ placement[n] \in ExecDevices
               /\ tied.obj[n] = tied.slots[data_ptr(n)][placement[n]]

C14_Witness ==
    /\ tied.status = "installed"
    /\ tied.calls = MaxCalls
    /\ tied.reuses >= 2
    /\ \E d \in Accelerators : tied.allocs[<<"a", "weight">>][d] = 1


\* ====================================================== cpu_offload_with_hook
\* The pipeline models are numbered in the order they are given to
\* cpu_offload_with_hook; 0 stands for prev_module_hook=None.  chain.hook[k] is
\* the CpuOffload hook of model k, chain.device[k] the device model k is on.
NoHandle == 0

NoEvent == [op |-> "None", model |-> 0, before_run |-> <<>>]

\* hooks.CpuOffload.init_hook, also UserCpuOffloadHook.offload: module.to("cpu").
offload(device, k) == [device EXCEPT ![k] = "cpu"]

\* hooks.CpuOffload.pre_forward without the offload of the previous model.
cpu_offload_pre_forward_keep_prev(hook, device, k) ==
    [device EXCEPT ![k] = hook[k].execution_device]

\* hooks.CpuOffload.pre_forward of model k: the previous model's handle, when
\* there is one, is offloaded, then the module goes to the execution device.
cpu_offload_pre_forward(hook, device, k) ==
    LET prev == hook[k].prev_module_hook
        evicted == IF prev # NoHandle THEN offload(device, prev) ELSE device
    IN  [evicted EXCEPT ![k] = hook[k].execution_device]

\* Lines 257-260: the hook is built from the two arguments and attached, which
\* runs its init_hook; the handle returned is the model's number.
cpu_offload_with_hook(ch, execution_device, prev_module_hook) ==
    LET k == Len(ch.hook) + 1
        hook == [execution_device |-> execution_device,
                 prev_module_hook |-> prev_module_hook]
    IN  [ch EXCEPT !.hook = Append(@, hook),
                   !.device = offload(Append(@, "cpu"), k)]

InitChain ==
    /\ FreshModel
    /\ placement = [t \in Tensors |-> "cpu"]
    /\ quant.quantization_method = "unset"
    /\ load = NoLoad
    /\ tied = NoTied
    /\ chain = [status |-> "built", hook |-> <<>>, device |-> <<>>, last |-> NoEvent]
    /\ cast = NoCast
    /\ patch = NoPatch

\* model, hook = cpu_offload_with_hook(model, execution_device, prev_module_hook)
CpuOffloadWithHook ==
    /\ chain.status = "built"
    /\ Len(chain.hook) < MaxModels
    /\ \E execution_device \in Accelerators :
       \E prev_module_hook \in {NoHandle} \cup DOMAIN chain.hook :
        chain' = [cpu_offload_with_hook(chain, execution_device, prev_module_hook)
                     EXCEPT !.last = [op |-> "cpu_offload_with_hook",
                                      model |-> Len(chain.hook) + 1,
                                      before_run |-> <<>>]]
    /\ UNCHANGED <<placement, quant, disk, device_map, hooks, wrapped, hf_device_map,
                   status, args, main_device, force_hooks, error_modules,
                   warned_offload, last_call, load, tied, cast, patch>>

\* model_k(input): the pre-forward hook, then the model's own forward, which
\* sees the devices `before_run`.
CallModel ==
    /\ chain.status = "built"
    /\ \E k \in DOMAIN chain.hook :
        \E d \in {cpu_offload_pre_forward(chain.hook, chain.device, k)} :
            chain' = [chain EXCEPT !.device = d,
                                   !.last = [op |-> "call", model |-> k, before_run |-> d]]
    /\ UNCHANGED <<placement, quant, disk, device_map, hooks, wrapped, hf_device_map,
                   status, args, main_device, force_hooks, error_modules,
                   warned_offload, last_call, load, tied, cast, patch>>

\* hook_k.offload()
HandleOffload ==
    /\ chain.status = "built"
    /\ \E k \in DOMAIN chain.hook :
        chain' = [chain EXCEPT !.device = offload(@, k),
                               !.last = [op |-> "offload", model |-> k, before_run |-> <<>>]]
    /\ UNCHANGED <<placement, quant, disk, device_map, hooks, wrapped, hf_device_map,
                   status, args, main_device, force_hooks, error_modules,
                   warned_offload, last_call, load, tied, cast, patch>>

NextChain == CpuOffloadWithHook \/ CallModel \/ HandleOffload

SpecChain == InitChain /\ [][NextChain]_vars

\* Model j's handle was given as predecessor when model k was built.
Successor(ch, j, k) == k \in DOMAIN ch.hook /\ ch.hook[k].prev_module_hook = j

\* C15: in a pipeline built with cpu_offload_with_hook, a call of a model
\* whose predecessor is model j runs with model j on "cpu" and itself on its
\* execution device, and is on that device afterwards; a model that is on its
\* execution device leaves it only in a step that calls one of its successors
\* or invokes its own handle's offload, so a model without successor leaves it
\* only by its own handle's offload.
C15_ChainEviction ==
    [][/\ \A k \in DOMAIN chain'.hook :
            (chain'.last.op = "call" /\ chain'.last.model = k)
            => /\ chain'.last.before_run[k] = chain'.hook[k].execution_device
               /\ chain'.device[k] = chain'.hook[k].execution_device
               /\ \A j \in DOMAIN chain'.hook :
                    Successor(chain', j, k) => chain'.last.before_run[j] = "cpu"
       /\ \A j \in DOMAIN chain.hook :
            (chain.device[j] # "cpu" /\ chain'.device[j] = "cpu")
            => \/ chain'.last.op = "call" /\ Successor(chain', j, chain'.last.model)
               \/ chain'.last.op = "offload" /\ chain'.last.model = j]_vars

C15_Witness ==
    /\ Len(chain.hook) = 3
    /\ Successor(chain, 1, 2) /\ Successor(chain, 2, 3)
    /\ chain.last.op = "call" /\ chain.last.model = 3
    /\ chain.device[1] # "cpu" /\ chain.device[2] = "cpu" /\ chain.device[3] # "cpu"


\* ============================================ attach_layerwise_casting_hooks
\* The module tree handed to attach_layerwise_casting_hooks: named_children in
\* registration order.  A tree is the class of each of its modules.
CastModules == {Root, <<"blk">>, <<"blk", "fc">>, <<"blk", "norm">>, <<"head">>}
named_children(m) ==
    IF m = Root THEN <<"blk", "head">>
    ELSE IF m = <<"blk">> THEN <<"fc", "norm">>
    ELSE <<>>

\* Module classes; utils.constants.SUPPORTED_PYTORCH_LAYERS_FOR_UPCASTING
\* holds the layer classes that can be cast.
ModuleClasses == {"Linear", "LayerNorm", "Block"}
SUPPORTED_PYTORCH_LAYERS_FOR_UPCASTING == {"Linear"}
CastTrees == [CastModules -> ModuleClasses]

\* skip_modules_classes and skip_modules_pattern: None or a tuple.
NoneTuple == [given |-> FALSE, items |-> {}]
SkipClassesArgs == {NoneTuple} \cup {[given |-> TRUE, items |-> {c}] : c \in ModuleClasses}
SkipPatternArgs == {NoneTuple} \cup {[given |-> TRUE, items |-> {p}] : p \in {"", "norm", "blk"}}

\* re.search(pattern, _prefix) for a pattern that is a component name or the
\* empty pattern, which is found in every string, "" included.
re_search(pattern, prefix) == pattern = "" \/ pattern \in SeqSet(prefix)

\* should_skip looking at the skip classes only.
should_skip_classes_only(tree, m, skip_modules_pattern, skip_modules_classes) ==
    skip_modules_classes.given /\ tree[m] \in skip_modules_classes.items

\* Lines 740-742.
should_skip(tree, m, skip_modules_pattern, skip_modules_classes) ==
    \/ skip_modules_classes.given /\ tree[m] \in skip_modules_classes.items
    \/ /\ skip_modules_pattern.given
       /\ \E pattern \in skip_modules_pattern.items : re_search(pattern, m)

\* Lines 731-766: the modules add_hook_to_module is called on, in call order.
\* The module at path m is visited with _prefix m.
RECURSIVE _attach_layerwise_casting_hooks(_, _, _, _)
RECURSIVE attach_children(_, _, _, _, _)
_attach_layerwise_casting_hooks(tree, m, skip_modules_pattern, skip_modules_classes) ==
    IF should_skip(tree, m, skip_modules_pattern, skip_modules_classes) THEN <<>>
    ELSE IF tree[m] \in SUPPORTED_PYTORCH_LAYERS_FOR_UPCASTING THEN <<m>>
    ELSE attach_children(tree, m, named_children(m), skip_modules_pattern,
                         skip_modules_classes)

\* Lines 756-766: the loop over named_children.
attach_children(tree, m, names, skip_modules_pattern, skip_modules_classes) ==
    IF names = <<>> THEN <<>>
    ELSE _attach_layerwise_casting_hooks(tree, Append(m, Head(names)),
                                         skip_modules_pattern, skip_modules_classes)
         \o attach_children(tree, m, Tail(names), skip_modules_pattern,
                            skip_modules_classes)

InitCast ==
    /\ FreshModel
    /\ placement = [t \in Tensors |-> "cpu"]
    /\ quant.quantization_method = "unset"
    /\ load = NoLoad
    /\ tied = NoTied
    /\ chain = NoChain
    /\ \E tree \in CastTrees :
        cast = [status |-> "idle", attached |-> <<>>, tree |-> tree,
                skip_modules_pattern |-> NoneTuple, skip_modules_classes |-> NoneTuple]
    /\ patch = NoPatch

\* attach_layerwise_casting_hooks(module, storage_dtype, compute_dtype,
\*                                skip_modules_pattern, skip_modules_classes)
AttachLayerwiseCastingHooks ==
    /\ cast.status = "idle"
    /\ \E skip_modules_pattern \in SkipPatternArgs :
       \E skip_modules_classes \in SkipClassesArgs :
        cast' = [cast EXCEPT
                    !.status = "returned",
                    !.skip_modules_pattern = skip_modules_pattern,
                    !.skip_modules_classes = skip_modules_classes,
                    !.attached = _attach_layerwise_casting_hooks(
                                     cast.tree, Root, skip_modules_pattern,
                                     skip_modules_classes)]
    /\ UNCHANGED <<placement, quant, disk, device_map, hooks, wrapped, hf_device_map,
                   status, args, main_device, force_hooks, error_modules,
                   warned_offload, last_call, load, tied, chain, patch>>

NextCast == AttachLayerwiseCastingHooks

SpecCast == InitCast /\ [][NextCast]_vars

\* The number of casting hooks the call attached to module m.
HookCount(c, m) == Cardinality({i \in DOMAIN c.attached : c.attached[i] = m})

\* m is of a supported layer class; m matches a skip class or a skip pattern.
Eligible(c, m) == c.tree[m] \in SUPPORTED_PYTORCH_LAYERS_FOR_UPCASTING
Skipped(c, m) ==
    \/ c.skip_modules_classes.given /\ c.tree[m] \in c.skip_modules_classes.items
    \/ /\ c.skip_modules_pattern.given
       /\ \E p \in c.skip_modules_pattern.items : re_search(p, m)

\* The modules from the root down to m's parent.
ProperAncestors(m) == {n \in CastModules : IsPrefix(n, m) /\ n # m}

C17_AppliedToModuleItself ==
    (/\ cast.status = "returned"
     /\ ~cast.skip_modules_pattern.given
     /\ ~cast.skip_modules_classes.given)
    => cast.attached = <<Root>>


\* ========================================== init_on_device, init_empty_weights
\* The process-wide entry points: nn.Module.register_parameter,
\* nn.Module.register_buffer, torch.empty/zeros/ones/full, and the stack of
\* torch device contexts (`with device:`).  A function value is its name and
\* the depth of the context that made it, 0 for the functions torch ships.
Constructors == {"empty", "zeros", "ones", "full"}
Original(name) == [fn |-> name, depth |-> 0]
OriginalEntryPoints ==
    [register_parameter |-> Original("register_parameter"),
     register_buffer |-> Original("register_buffer"),
     constructors |-> [c \in Constructors |-> Original(c)],
     device_stack |-> <<>>]

\* Lines 93 and 117-118: include_buffers, None read from the environment flag
\* ACCELERATE_INIT_INCLUDE_BUFFERS.
include_buffers_of(include_buffers, env_flag) ==
    IF include_buffers = "None" THEN env_flag ELSE include_buffers = "True"

\* Lines 120-166, up to the yield: what entering the context does to the entry
\* points `ep` and what the generator keeps in its frame.
enter(ep, depth, device, include_buffers) ==
    IF include_buffers
    THEN [ep |-> [ep EXCEPT !.device_stack = Append(@, device)],
          frame |-> [include_buffers |-> TRUE, with_device |-> TRUE,
                     old_register_parameter |-> ep.register_parameter,
                     old_register_buffer |-> ep.register_buffer,
                     tensor_constructors_to_patch |-> <<>>]]
    ELSE LET to_patch == IF include_buffers
                         THEN [c \in Constructors |-> ep.constructors[c]]
                         ELSE <<>>
         IN  [ep |-> [ep EXCEPT
                        !.register_parameter =
                            [fn |-> "register_empty_parameter", depth |-> depth],
                        !.register_buffer =
                            IF include_buffers
                            THEN [fn |-> "register_empty_buffer", depth |-> depth]
                            ELSE @,
                        !.constructors =
                            [c \in Constructors |->
                                IF c \in DOMAIN to_patch
                                THEN [fn |-> "wrapper", depth |-> depth] ELSE @[c]]],
              frame |-> [include_buffers |-> FALSE, with_device |-> FALSE,
                         old_register_parameter |-> ep.register_parameter,
                         old_register_buffer |-> ep.register_buffer,
                         tensor_constructors_to_patch |-> to_patch]]

\* exit restoring only when the body returned.
exit_without_finally(ep, frame, how) ==
    IF frame.with_device
    THEN [ep EXCEPT !.device_stack = SubSeq(@, 1, Len(@) - 1)]
    ELSE IF how = "raise" THEN ep
    ELSE [ep EXCEPT !.register_parameter = frame.old_register_parameter]

\* Lines 121-123 and 167-172: leaving the context, the body having returned or
\* raised (`how`): torch's device context pops itself, the finally clause puts
\* back what the frame kept.
exit(ep, frame, how) ==
    IF frame.with_device
    THEN [ep EXCEPT !.device_stack = SubSeq(@, 1, Len(@) - 1)]
    ELSE [ep EXCEPT
            !.register_parameter = frame.old_register_parameter,
            !.register_buffer = IF frame.include_buffers
                                THEN frame.old_register_buffer ELSE @,
            !.constructors =
                [c \in Constructors |->
                    IF c \in DOMAIN frame.tensor_constructors_to_patch
                    THEN frame.tensor_constructors_to_patch[c] ELSE @[c]]]

InitPatch ==
    /\ FreshModel
    /\ placement = [t \in Tensors |-> "cpu"]
    /\ quant.quantization_method = "unset"
    /\ load = NoLoad
    /\ tied = NoTied
    /\ chain = NoChain
    /\ cast = NoCast
    /\ patch = [status |-> "running", frames |-> <<>>, ep |-> OriginalEntryPoints,
                last |-> [op |-> "None", how |-> "None"]]

\* with init_on_device(device, include_buffers): / with init_empty_weights(
\* include_buffers): entered inside the contexts already open.
EnterContext ==
    /\ patch.status = "running"
    /\ Len(patch.frames) < MaxDepth
    /\ \E fn \in {"init_on_device", "init_empty_weights"} :
       \E device \in IF fn = "init_empty_weights" THEN {"meta"} ELSE {"meta", "0"} :
       \E include_buffers \in {"None", "True", "False"} :
       \E env_flag \in IF include_buffers = "None" THEN BOOLEAN ELSE {FALSE} :
        \E r \in {enter(patch.ep, Len(patch.frames) + 1, device,
                        include_buffers_of(include_buffers, env_flag))} :
            patch' = [patch EXCEPT
                        !.ep = r.ep,
                        !.frames = Append(@, [fn |-> fn, device |-> device,
                                              locals |-> r.frame, seen |-> patch.ep]),
                        !.last = [op |-> "enter", how |-> "None"]]
    /\ UNCHANGED <<placement, quant, disk, device_map, hooks, wrapped, hf_device_map,
                   status, args, main_device, force_hooks, error_modules,
                   warned_offload, last_call, load, tied, chain, cast>>

\* The body of the innermost context returns or raises.
ExitContext ==
    /\ patch.status = "running"
    /\ patch.frames # <<>>
    /\ \E how \in {"return", "raise"} :
        LET frame == patch.frames[Len(patch.frames)]
        IN  patch' = [patch EXCEPT
                        !.ep = exit(@, frame.locals, how),
                        !.frames = SubSeq(@, 1, Len(@) - 1),
                        !.last = [op |-> "exit", how |-> how]]
    /\ UNCHANGED <<placement, quant, disk, device_map, hooks, wrapped, hf_device_map,
                   status, args, main_device, force_hooks, error_modules,
                   warned_offload, last_call, load, tied, chain, cast>>

NextPatch == EnterContext \/ ExitContext

SpecPatch == InitPatch /\ [][NextPatch]_vars

\* C18: whenever a context of init_on_device or init_empty_weights is left,
\* by return or by an exception of the body, register_parameter,
\* register_buffer and the tensor constructors are what they were when that
\* context was entered, at every nesting depth and for both values of
\* include_buffers.
C18_EntryPointsRestored ==
    [][(patch.status = "running" /\ Len(patch'.frames) < Len(patch.frames))
       => LET seen == patch.frames[Len(patch.frames)].seen
          IN  /\ patch'.ep.register_parameter = seen.register_parameter
              /\ patch'.ep.register_buffer = seen.register_buffer
              /\ patch'.ep.constructors = seen.constructors
              /\ patch'.ep.device_stack = seen.device_stack]_vars

C18_Witness ==
    /\ patch.status = "running"
    /\ patch.last = [op |-> "exit", how |-> "raise"]
    /\ Len(patch.frames) = 2
    /\ patch.frames[2].locals.include_buffers
    /\ ~patch.frames[1].locals.include_buffers
    /\ patch.ep.register_parameter = [fn |-> "register_empty_parameter", depth |-> 1]


\* ------------------------------------------------------ claim on the fast path
\* C19: after a dispatch_model call that returned from the fast path, every
\* parameter and every buffer is on the single tier of the device map,
\* wherever the tensors were before the call.
C19_FastPathPlacesAll ==
    (status = "returned" /\ ~hooks.attached)
    => \A t \in Tensors : placement[t] = fast_path_device(device_map)

====
